---- MODULE Spec2Model ----
(***************************************************************************)
(* Model of lib/aws-stack.ts: the JordanAwsStack constructor, which reads  *)
(* process.env, resolves typed parameters, and builds the construct tree   *)
(* (VPC, security groups, EC2, VPN, optional RDS, outputs, optional        *)
(* Route 53 records, tags).                                                *)
(*                                                                         *)
(* Strings whose characters the code inspects are sequences of one-        *)
(* character strings, so that toLowerCase, trim, split and parseInt are    *)
(* computed character by character.  Construct ids and output names are    *)
(* plain strings.  The CDK library is outside the repository: a library    *)
(* constructor is modelled by the node it adds to the tree, with the       *)
(* properties the stack passes to it, and is assumed not to throw.         *)
(***************************************************************************)
EXTENDS Integers, Sequences, FiniteSets, TLC

VARIABLES
    penv,      \* process.env of the current run: name -> value or undefined
    pc,        \* position of the constructor
    cfg,       \* the constants resolved in section 0 of the constructor
    tree,      \* construct id -> properties of the node created so far
    outputs,   \* CfnOutput id -> value
    tags,      \* tag key -> value applied to the stack
    err,       \* the Error thrown by the constructor, if any
    locals,    \* the constructor's let variables dbEndpoint and dbSecretName
    prev       \* what the previous run of the program left behind

vars == <<penv, pc, cfg, tree, outputs, tags, err, locals, prev>>

----------------------------------------------------------------------------
(* JavaScript values *)

undefined == [def |-> FALSE, str |-> <<>>]
S(chars) == [def |-> TRUE, str |-> chars]

NaN == [nan |-> TRUE, val |-> 0]
Num(n) == [nan |-> FALSE, val |-> n]

UpperChars == <<"A", "B", "C", "D", "E", "F", "G", "H", "I", "J", "K", "L", "M",
                "N", "O", "P", "Q", "R", "S", "T", "U", "V", "W", "X", "Y", "Z">>
LowerChars == <<"a", "b", "c", "d", "e", "f", "g", "h", "i", "j", "k", "l", "m",
                "n", "o", "p", "q", "r", "s", "t", "u", "v", "w", "x", "y", "z">>
DigitChars == <<"0", "1", "2", "3", "4", "5", "6", "7", "8", "9">>
WhiteSpace == {" ", "\t"}

Range(f) == {f[i] : i \in DOMAIN f}

toLowerCaseChar(c) ==
    IF c \in Range(UpperChars)
    THEN LowerChars[CHOOSE k \in DOMAIN UpperChars : UpperChars[k] = c]
    ELSE c

toUpperCaseChar(c) ==
    IF c \in Range(LowerChars)
    THEN UpperChars[CHOOSE k \in DOMAIN LowerChars : LowerChars[k] = c]
    ELSE c

toLowerCase(s) == [i \in 1..Len(s) |-> toLowerCaseChar(s[i])]
toUpperCase(s) == [i \in 1..Len(s) |-> toUpperCaseChar(s[i])]

RECURSIVE trimStart(_)
trimStart(s) ==
    IF s # <<>> /\ Head(s) \in WhiteSpace THEN trimStart(Tail(s)) ELSE s

RECURSIVE trimEnd(_)
trimEnd(s) ==
    IF s # <<>> /\ s[Len(s)] \in WhiteSpace
    THEN trimEnd(SubSeq(s, 1, Len(s) - 1))
    ELSE s

trim(s) == trimEnd(trimStart(s))

RECURSIVE split(_, _)
split(s, sep) ==
    IF \E i \in 1..Len(s) : s[i] = sep
    THEN LET i == CHOOSE k \in 1..Len(s) :
                      s[k] = sep /\ \A j \in 1..(k - 1) : s[j] # sep
         IN  <<SubSeq(s, 1, i - 1)>> \o split(SubSeq(s, i + 1, Len(s)), sep)
    ELSE <<s>>

RECURSIVE digitPrefix(_)
digitPrefix(s) ==
    IF s # <<>> /\ Head(s) \in Range(DigitChars)
    THEN <<Head(s)>> \o digitPrefix(Tail(s))
    ELSE <<>>

digitValue(c) == (CHOOSE k \in DOMAIN DigitChars : DigitChars[k] = c) - 1

RECURSIVE decimal(_)
decimal(ds) ==
    IF ds = <<>> THEN 0
    ELSE decimal(SubSeq(ds, 1, Len(ds) - 1)) * 10 + digitValue(ds[Len(ds)])

(* parseInt(v, 10): leading white space is skipped, an optional sign is   *)
(* read, then the longest run of decimal digits; NaN when that run is     *)
(* empty.  Whatever follows the digits is ignored.                        *)
parseInt(s) ==
    LET t  == trimStart(s)
        sg == t # <<>> /\ Head(t) \in {"+", "-"}
        u  == IF sg THEN Tail(t) ELSE t
        ds == digitPrefix(u)
    IN  IF ds = <<>> THEN NaN
        ELSE Num(IF sg /\ Head(t) = "-" THEN 0 - decimal(ds) ELSE decimal(ds))

----------------------------------------------------------------------------
(* Helpers de entorno *)

Return(v) == [threw |-> FALSE, val |-> v]
Throw(name) == [threw |-> TRUE, val |-> <<>>, name |-> name]

(* Faulty variant of env: only an absent variable counts as missing *)
envUndefinedOnly(e, name, fallback) ==
    LET v == e[name]
    IN  IF ~v.def
        THEN IF fallback.def THEN Return(fallback.str) ELSE Throw(name)
        ELSE Return(v.str)

env(e, name, fallback) ==
    LET v == e[name]
    IN  IF ~v.def \/ v.str = <<>>
        THEN IF fallback.def THEN Return(fallback.str) ELSE Throw(name)
        ELSE Return(v.str)

TruthyTokens == {<<"1">>, <<"t", "r", "u", "e">>, <<"y", "e", "s">>, <<"y">>}

(* Faulty variant of envBool: the value is compared without lower-casing *)
envBoolCaseSensitive(e, name, fallback) ==
    LET v == e[name]
    IN  IF ~v.def THEN fallback ELSE v.str \in TruthyTokens

envBool(e, name, fallback) ==
    LET v == e[name]
    IN  IF ~v.def THEN fallback ELSE toLowerCase(v.str) \in TruthyTokens

envInt(e, name, fallback) ==
    LET v == e[name]
    IN  IF ~v.def THEN fallback
        ELSE LET n == parseInt(v.str)
             IN  IF n.nan THEN fallback ELSE n.val

----------------------------------------------------------------------------
(* The variables the stack reads from process.env *)

Names ==
    {"NAT_GATEWAYS", "EC2_INSTANCE_TYPE", "SSH_ALLOWED_IP",
     "EC2_KEY_PAIR_NAME", "SAP_API_HOST_IP", "SAP_API_PORT",
     "CGW_PUBLIC_IP", "CGW_BGP_ASN", "VPN_PRESHARED_KEY",
     "REMOTE_NETWORK_CIDR", "ENABLE_RDS", "DB_NAME",
     "DB_ADMIN_USER", "DB_RETAIN", "ENABLE_ROUTE53",
     "HOSTED_ZONE_DOMAIN", "CREATE_APEX_A_RECORD", "CREATE_WWW_A_RECORD"}

RequiredNames ==
    {"SSH_ALLOWED_IP", "EC2_KEY_PAIR_NAME", "CGW_PUBLIC_IP", "VPN_PRESHARED_KEY",
     "REMOTE_NETWORK_CIDR"}

(* The .env of the header comment of lib/aws-stack.ts *)
HeaderExample ==
       "NAT_GATEWAYS"       :> S(<<"1">>)
    @@ "EC2_INSTANCE_TYPE"  :> S(<<"t", "3", ".", "m", "e", "d", "i", "u", "m">>)
    @@ "SSH_ALLOWED_IP"     :> S(<<"2", "0", "3", ".", "0", ".", "1", "1", "3", ".", "1", "0", "/", "3", "2">>)
    @@ "EC2_KEY_PAIR_NAME"  :> S(<<"m", "y", "-", "k", "e", "y", "p", "a", "i", "r">>)
    @@ "SAP_API_HOST_IP"    :> S(<<"1", "0", ".", "1", ".", "0", ".", "1", "5", "/", "3", "2">>)
    @@ "SAP_API_PORT"       :> S(<<"5", "0", "0", "0", "0">>)
    @@ "CGW_PUBLIC_IP"      :> S(<<"1", "9", "8", ".", "5", "1", ".", "1", "0", "0", ".", "2", "0">>)
    @@ "CGW_BGP_ASN"        :> S(<<"6", "5", "0", "0", "0">>)
    @@ "VPN_PRESHARED_KEY"  :> S(<<"s", "u", "p", "e", "r", "-", "p", "s", "k", "-", "v", "a", "l", "u", "e">>)
    @@ "REMOTE_NETWORK_CIDR" :> S(<<"1", "0", ".", "1", ".", "0", ".", "0", "/", "1", "6">>)
    @@ "ENABLE_RDS"         :> S(<<"t", "r", "u", "e">>)
    @@ "DB_NAME"            :> S(<<"a", "p", "p", "d", "b">>)
    @@ "DB_ADMIN_USER"      :> S(<<"d", "b", "a", "d", "m", "i", "n">>)
    @@ "DB_RETAIN"          :> S(<<"f", "a", "l", "s", "e">>)
    @@ "ENABLE_ROUTE53"     :> S(<<"t", "r", "u", "e">>)
    @@ "HOSTED_ZONE_DOMAIN" :> S(<<"e", "x", "a", "m", "p", "l", "e", ".", "c", "o", "m">>)
    @@ "CREATE_APEX_A_RECORD" :> S(<<"t", "r", "u", "e">>)
    @@ "CREATE_WWW_A_RECORD" :> S(<<"t", "r", "u", "e">>)

(* The .env.example of the README: three required values are left empty *)
DotEnvExample ==
       "NAT_GATEWAYS"       :> S(<<"1">>)
    @@ "EC2_INSTANCE_TYPE"  :> S(<<"t", "3", ".", "m", "e", "d", "i", "u", "m">>)
    @@ "SSH_ALLOWED_IP"     :> S(<<>>)
    @@ "EC2_KEY_PAIR_NAME"  :> S(<<"m", "y", "-", "k", "e", "y", "p", "a", "i", "r">>)
    @@ "SAP_API_HOST_IP"    :> S(<<>>)
    @@ "SAP_API_PORT"       :> S(<<"5", "0", "0", "0", "0">>)
    @@ "CGW_PUBLIC_IP"      :> S(<<>>)
    @@ "CGW_BGP_ASN"        :> S(<<"6", "5", "0", "0", "0">>)
    @@ "VPN_PRESHARED_KEY"  :> S(<<"c", "h", "a", "n", "g", "e", "-", "m", "e">>)
    @@ "REMOTE_NETWORK_CIDR" :> S(<<>>)
    @@ "ENABLE_RDS"         :> S(<<"t", "r", "u", "e">>)
    @@ "DB_NAME"            :> S(<<"a", "p", "p", "d", "b">>)
    @@ "DB_ADMIN_USER"      :> S(<<"d", "b", "a", "d", "m", "i", "n">>)
    @@ "DB_RETAIN"          :> S(<<"f", "a", "l", "s", "e">>)
    @@ "ENABLE_ROUTE53"     :> S(<<"f", "a", "l", "s", "e">>)
    @@ "HOSTED_ZONE_DOMAIN" :> S(<<"e", "x", "a", "m", "p", "l", "e", ".", "c", "o", "m">>)
    @@ "CREATE_APEX_A_RECORD" :> S(<<"t", "r", "u", "e">>)
    @@ "CREATE_WWW_A_RECORD" :> S(<<"t", "r", "u", "e">>)

(* Only the five required variables are set *)
RequiredOnly ==
       "NAT_GATEWAYS"       :> undefined
    @@ "EC2_INSTANCE_TYPE"  :> undefined
    @@ "SSH_ALLOWED_IP"     :> S(<<"2", "0", "3", ".", "0", ".", "1", "1", "3", ".", "1", "0", "/", "3", "2">>)
    @@ "EC2_KEY_PAIR_NAME"  :> S(<<"m", "y", "-", "k", "e", "y", "p", "a", "i", "r">>)
    @@ "SAP_API_HOST_IP"    :> undefined
    @@ "SAP_API_PORT"       :> undefined
    @@ "CGW_PUBLIC_IP"      :> S(<<"1", "9", "8", ".", "5", "1", ".", "1", "0", "0", ".", "2", "0">>)
    @@ "CGW_BGP_ASN"        :> undefined
    @@ "VPN_PRESHARED_KEY"  :> S(<<"s", "u", "p", "e", "r", "-", "p", "s", "k", "-", "v", "a", "l", "u", "e">>)
    @@ "REMOTE_NETWORK_CIDR" :> S(<<"1", "0", ".", "1", ".", "0", ".", "0", "/", "1", "6">>)
    @@ "ENABLE_RDS"         :> undefined
    @@ "DB_NAME"            :> undefined
    @@ "DB_ADMIN_USER"      :> undefined
    @@ "DB_RETAIN"          :> undefined
    @@ "ENABLE_ROUTE53"     :> undefined
    @@ "HOSTED_ZONE_DOMAIN" :> undefined
    @@ "CREATE_APEX_A_RECORD" :> undefined
    @@ "CREATE_WWW_A_RECORD" :> undefined

ExampleEnvs == {HeaderExample, DotEnvExample, RequiredOnly}

(* The values an operator may write for each variable *)
ValuesOf ==
       "NAT_GATEWAYS"       :> {undefined,
            S(<<>>),
            S(<<"0">>),
            S(<<"-", "1">>),
            S(<<"2">>),
            S(<<"a", "b", "c">>)}
    @@ "EC2_INSTANCE_TYPE"  :> {undefined,
            S(<<>>),
            S(<<"t", "3">>),
            S(<<"T", "3", ".", "L", "a", "r", "g", "e">>),
            S(<<"z", "z", ".", "m", "e", "d", "i", "u", "m">>),
            S(<<"t", "3", ".", "m", "e", "d", "i", "u", "m", ".", "e", "x", "t", "r", "a">>),
            S(<<"t", "3", ".", "s", "m", "a", "l", "l", ".", "e", "x", "t", "r", "a">>)}
    @@ "SSH_ALLOWED_IP"     :> {undefined,
            S(<<>>),
            S(<<"2", "0", "3", ".", "0", ".", "1", "1", "3", ".", "1", "0", "/", "3", "2">>),
            S(<<"0", ".", "0", ".", "0", ".", "0", "/", "0">>)}
    @@ "EC2_KEY_PAIR_NAME"  :> {undefined,
            S(<<>>),
            S(<<"m", "y", "-", "k", "e", "y", "p", "a", "i", "r">>)}
    @@ "SAP_API_HOST_IP"    :> {undefined,
            S(<<>>),
            S(<<" ">>),
            S(<<"\t", " ">>),
            S(<<" ", "1", "0", ".", "1", ".", "0", ".", "1", "5", "/", "3", "2", " ">>),
            S(<<"1", "0", ".", "1", ".", "0", ".", "1", "5", "/", "3", "2">>)}
    @@ "SAP_API_PORT"       :> {undefined,
            S(<<>>),
            S(<<"8", "4", "4", "3">>),
            S(<<"1", "2", "a", "b", "c">>),
            S(<<" ", "4", "4", "3">>)}
    @@ "CGW_PUBLIC_IP"      :> {undefined,
            S(<<>>),
            S(<<"1", "9", "8", ".", "5", "1", ".", "1", "0", "0", ".", "2", "0">>)}
    @@ "CGW_BGP_ASN"        :> {undefined,
            S(<<"6", "5", "0", "1", "0">>),
            S(<<"1", ".", "5">>),
            S(<<"x">>)}
    @@ "VPN_PRESHARED_KEY"  :> {undefined,
            S(<<>>),
            S(<<"c", "h", "a", "n", "g", "e", "-", "m", "e">>)}
    @@ "REMOTE_NETWORK_CIDR" :> {undefined,
            S(<<>>),
            S(<<"1", "0", ".", "1", ".", "0", ".", "0", "/", "1", "6">>)}
    @@ "ENABLE_RDS"         :> {undefined,
            S(<<>>),
            S(<<"t", "r", "u", "e">>),
            S(<<"f", "a", "l", "s", "e">>),
            S(<<"T", "R", "U", "E">>),
            S(<<"0">>)}
    @@ "DB_NAME"            :> {undefined,
            S(<<>>),
            S(<<"c", "r", "m">>)}
    @@ "DB_ADMIN_USER"      :> {undefined,
            S(<<"r", "o", "o", "t">>)}
    @@ "DB_RETAIN"          :> {undefined,
            S(<<"Y", "e", "s">>),
            S(<<"1">>),
            S(<<"o", "n">>),
            S(<<"f", "a", "l", "s", "e">>)}
    @@ "ENABLE_ROUTE53"     :> {undefined,
            S(<<"t", "r", "u", "e">>),
            S(<<"f", "a", "l", "s", "e">>),
            S(<<"Y">>),
            S(<<"t">>)}
    @@ "HOSTED_ZONE_DOMAIN" :> {undefined,
            S(<<>>),
            S(<<"e", "x", "a", "m", "p", "l", "e", ".", "c", "o", "m">>)}
    @@ "CREATE_APEX_A_RECORD" :> {undefined,
            S(<<"f", "a", "l", "s", "e">>),
            S(<<"y", "e", "s">>),
            S(<<"n", "o">>),
            S(<<"t", "r", "u", "e">>)}
    @@ "CREATE_WWW_A_RECORD" :> {undefined,
            S(<<>>),
            S(<<"1">>),
            S(<<" ", "t", "r", "u", "e">>),
            S(<<"f", "a", "l", "s", "e">>),
            S(<<"t", "r", "u", "e">>)}

(* How many lines of an example .env an operator has changed *)
MaxEdits == 1

RECURSIVE EditsOf(_, _)
EditsOf(B, k) ==
    IF k = 0 THEN B
    ELSE LET P == EditsOf(B, k - 1)
         IN  P \cup UNION {UNION {{[e EXCEPT ![n] = v] : v \in ValuesOf[n]} :
                                      n \in Names} : e \in P}

ParameterSets == EditsOf(ExampleEnvs, MaxEdits)

----------------------------------------------------------------------------
(* parseInstanceType *)

nullish(v, fallback) == IF v.def THEN v.str ELSE fallback

(* Keys of the ec2.InstanceClass and ec2.InstanceSize enumerations the    *)
(* model knows, each with the name the library prints for it.             *)
InstanceClass ==
       <<"T", "2">> :> <<"t", "2">>
    @@ <<"T", "3">> :> <<"t", "3">>
    @@ <<"M", "5">> :> <<"m", "5">>

InstanceSize ==
       <<"M", "I", "C", "R", "O">>      :> <<"m", "i", "c", "r", "o">>
    @@ <<"S", "M", "A", "L", "L">>      :> <<"s", "m", "a", "l", "l">>
    @@ <<"M", "E", "D", "I", "U", "M">> :> <<"m", "e", "d", "i", "u", "m">>
    @@ <<"L", "A", "R", "G", "E">>      :> <<"l", "a", "r", "g", "e">>

(* enumeration[key]: undefined for a key the enumeration does not have *)
member(enumeration, key) ==
    IF key \in DOMAIN enumeration THEN S(enumeration[key]) ELSE undefined

(* ec2.InstanceType.of formats "<class>.<size>" and does not throw: an    *)
(* undefined member is printed as the word undefined.                     *)
InstanceTypeOf(class, size) ==
    nullish(class, <<"u", "n", "d", "e", "f", "i", "n", "e", "d">>) \o <<".">>
        \o nullish(size, <<"u", "n", "d", "e", "f", "i", "n", "e", "d">>)

(* [family, size] = raw.split('.'): size is undefined when there is no    *)
(* '.', and size.toUpperCase() then throws, which the catch turns into    *)
(* T3.MEDIUM.                                                             *)
parseInstanceType(raw) ==
    LET parts  == split(raw, ".")
        family == parts[1]
    IN  IF Len(parts) < 2
        THEN InstanceTypeOf(member(InstanceClass, <<"T", "3">>),
                            member(InstanceSize, <<"M", "E", "D", "I", "U", "M">>))
        ELSE InstanceTypeOf(member(InstanceClass, toUpperCase(family)),
                            member(InstanceSize, toUpperCase(parts[2])))

----------------------------------------------------------------------------
(* 0) Parametros generales desde .env *)

UnresolvedConfig == [resolved |-> FALSE]

(* Lines 78-103 in order: the first env() that throws ends the run. *)
ResolveConfig(e) ==
    LET ssh    == env(e, "SSH_ALLOWED_IP", undefined)
        key    == env(e, "EC2_KEY_PAIR_NAME", undefined)
        cgw    == env(e, "CGW_PUBLIC_IP", undefined)
        psk    == env(e, "VPN_PRESHARED_KEY", undefined)
        remote == env(e, "REMOTE_NETWORK_CIDR", undefined)
    IN  IF ssh.threw THEN ssh
        ELSE IF key.threw THEN key
        ELSE IF cgw.threw THEN cgw
        ELSE IF psk.threw THEN psk
        ELSE IF remote.threw THEN remote
        ELSE Return(
            [resolved             |-> TRUE,
             NAT_GATEWAYS         |-> envInt(e, "NAT_GATEWAYS", 1),
             INSTANCE_TYPE        |-> parseInstanceType(
                                          nullish(e["EC2_INSTANCE_TYPE"],
                                                  <<"t", "3", ".", "m", "e", "d", "i", "u", "m">>)),
             SSH_ALLOWED_IP       |-> ssh.val,
             EC2_KEY_PAIR_NAME    |-> key.val,
             SAP_API_HOST_IP      |-> e["SAP_API_HOST_IP"],
             SAP_API_PORT         |-> envInt(e, "SAP_API_PORT", 50000),
             CGW_PUBLIC_IP        |-> cgw.val,
             CGW_BGP_ASN          |-> envInt(e, "CGW_BGP_ASN", 65000),
             VPN_PSK              |-> psk.val,
             REMOTE_NETWORK_CIDR  |-> remote.val,
             ENABLE_RDS           |-> envBool(e, "ENABLE_RDS", TRUE),
             DB_NAME              |-> nullish(e["DB_NAME"], <<"a", "p", "p", "d", "b">>),
             DB_ADMIN_USER        |-> nullish(e["DB_ADMIN_USER"],
                                              <<"d", "b", "a", "d", "m", "i", "n">>),
             DB_RETAIN            |-> envBool(e, "DB_RETAIN", FALSE),
             ENABLE_ROUTE53       |-> envBool(e, "ENABLE_ROUTE53", FALSE),
             HOSTED_ZONE_DOMAIN   |-> e["HOSTED_ZONE_DOMAIN"],
             CREATE_APEX_A_RECORD |-> envBool(e, "CREATE_APEX_A_RECORD", TRUE),
             CREATE_WWW_A_RECORD  |-> envBool(e, "CREATE_WWW_A_RECORD", TRUE)])

NoError == [thrown |-> FALSE, message |-> <<>>]

(* new Error(`Falta la variable de entorno requerida: ${name}`) *)
MissingVariableError(name) ==
    [thrown |-> TRUE, message |-> <<"Falta la variable de entorno requerida: ", name>>]

(* new Error('ENABLE_ROUTE53=true requiere HOSTED_ZONE_DOMAIN en .env') *)
Route53DomainError ==
    [thrown |-> TRUE, message |-> <<"ENABLE_ROUTE53=true requiere HOSTED_ZONE_DOMAIN en .env">>]

----------------------------------------------------------------------------
(* The construct tree *)

NoNodes == [id \in {} |-> [kind |-> ""]]
NoOutputs == [id \in {} |-> ""]
NoTags == [k \in {} |-> <<>>]
NoLocals == [dbEndpoint |-> "", dbSecretName |-> ""]
NoPrevious ==
    [status |-> "none", penv |-> RequiredOnly, cfg |-> UnresolvedConfig,
     tree |-> NoNodes, outputs |-> NoOutputs, err |-> NoError]

anyIpv4 == [kind |-> "ipv4", ref |-> <<"0", ".", "0", ".", "0", ".", "0", "/", "0">>]
ipv4(cidr) == [kind |-> "ipv4", ref |-> cidr]
securityGroupPeer(id) == [kind |-> "sg", ref |-> <<id>>]

Rule(peer, protocol, port) == [peer |-> peer, protocol |-> protocol, port |-> port]

(* ec2.Port.allIcmp(): protocol icmp, every type and code (-1) *)
allIcmp(peer) == Rule(peer, "icmp", 0 - 1)

maxAzs == 2

(* Faulty variant of VpcProps: the NAT gateway count is floored at 1 *)
VpcPropsFloored(c) ==
    [kind        |-> "ec2.Vpc",
     maxAzs      |-> maxAzs,
     natGateways |-> IF c.NAT_GATEWAYS < 1 THEN 1 ELSE c.NAT_GATEWAYS,
     subnetConfiguration |->
         <<[cidrMask |-> 24, name |-> "public", subnetType |-> "PUBLIC"],
           [cidrMask |-> 24, name |-> "private", subnetType |-> "PRIVATE_WITH_EGRESS"]>>,
     vpnGateway  |-> TRUE]

VpcProps(c) ==
    [kind        |-> "ec2.Vpc",
     maxAzs      |-> maxAzs,
     natGateways |-> c.NAT_GATEWAYS,
     subnetConfiguration |->
         <<[cidrMask |-> 24, name |-> "public", subnetType |-> "PUBLIC"],
           [cidrMask |-> 24, name |-> "private", subnetType |-> "PRIVATE_WITH_EGRESS"]>>,
     vpnGateway  |-> TRUE]

(* One CfnVPNGatewayRoutePropagation per subnet of the class; the VPC has *)
(* one subnet of each class in each of its maxAzs zones.                  *)
RoutePropagations(prefix, class) ==
    [id \in {prefix \o ToString(idx) : idx \in 0..(maxAzs - 1)} |->
        [kind         |-> "ec2.CfnVPNGatewayRoutePropagation",
         routeTableOf |-> class,
         vpnGatewayId |-> "HybridCloudVPC"]]

(* Faulty variant of WebIngressRules: SSH is open to any address *)
WebIngressRulesOpenSsh(c) ==
    {Rule(anyIpv4, "tcp", 80), Rule(anyIpv4, "tcp", 443), Rule(anyIpv4, "tcp", 22)}

WebIngressRules(c) ==
    {Rule(anyIpv4, "tcp", 80),
     Rule(anyIpv4, "tcp", 443),
     Rule(ipv4(c.SSH_ALLOWED_IP), "tcp", 22)}

(* Faulty variant of HasSapHost: the host is not trimmed before the test *)
HasSapHostUntrimmed(host) == nullish(host, <<>>) # <<>>

(* (SAP_API_HOST_IP ?? '').trim() !== '' *)
HasSapHost(host) == trim(nullish(host, <<>>)) # <<>>

WebEgressRules(c) ==
    {Rule(anyIpv4, "udp", 53),
     Rule(anyIpv4, "tcp", 80),
     Rule(anyIpv4, "tcp", 443),
     allIcmp(anyIpv4)}
    \cup (IF HasSapHost(c.SAP_API_HOST_IP)
          THEN {Rule(ipv4(trim(c.SAP_API_HOST_IP.str)), "tcp", c.SAP_API_PORT)}
          ELSE {})

(* The fixed profile of each of the two tunnels *)
TunnelOptions(psk) ==
    [preSharedKey |-> psk,
     ikeVersions |-> <<"ikev2">>,
     phase1EncryptionAlgorithms |-> <<"AES256">>,
     phase1IntegrityAlgorithms |-> <<"SHA2-256">>,
     phase1DhGroupNumbers |-> <<14>>,
     phase1LifetimeSeconds |-> 28800,
     phase2EncryptionAlgorithms |-> <<"AES256">>,
     phase2IntegrityAlgorithms |-> <<"SHA2-256">>,
     phase2DhGroupNumbers |-> <<14>>,
     phase2LifetimeSeconds |-> 3600]

(* Faulty variant of DatabaseProps: the negation of DB_RETAIN is dropped  *)
(* from deleteAutomatedBackups                                           *)
DatabasePropsBackupsInverted(c) ==
    [kind            |-> "rds.DatabaseInstance",
     engine          |-> "mariadb-10.6",
     instanceType    |-> "t3.small",
     vpc             |-> "HybridCloudVPC",
     subnetType      |-> "PRIVATE_WITH_EGRESS",
     securityGroups  |-> <<"DbSG">>,
     databaseName    |-> c.DB_NAME,
     credentials     |-> [generatedSecret |-> TRUE, username |-> c.DB_ADMIN_USER],
     allocatedStorage |-> 20,
     removalPolicy   |-> IF c.DB_RETAIN THEN "RETAIN" ELSE "DESTROY",
     deleteAutomatedBackups |-> c.DB_RETAIN,
     backupRetentionDays    |-> IF c.DB_RETAIN THEN 7 ELSE 0]

DatabaseProps(c) ==
    [kind            |-> "rds.DatabaseInstance",
     engine          |-> "mariadb-10.6",
     instanceType    |-> "t3.small",
     vpc             |-> "HybridCloudVPC",
     subnetType      |-> "PRIVATE_WITH_EGRESS",
     securityGroups  |-> <<"DbSG">>,
     databaseName    |-> c.DB_NAME,
     credentials     |-> [generatedSecret |-> TRUE, username |-> c.DB_ADMIN_USER],
     allocatedStorage |-> 20,
     removalPolicy   |-> IF c.DB_RETAIN THEN "RETAIN" ELSE "DESTROY",
     deleteAutomatedBackups |-> ~c.DB_RETAIN,
     backupRetentionDays    |-> IF c.DB_RETAIN THEN 7 ELSE 0]

(* db.secret?.secretName ?? '' : the instance has a secret exactly when  *)
(* its credentials are generated                                         *)
SecretNameOf(db) ==
    IF db.credentials.generatedSecret THEN "MariaDB.secret.secretName" ELSE ""

ARecord(recordName) ==
    [kind       |-> "route53.ARecord",
     zone       |-> "HostedZone",
     recordName |-> recordName,
     target     |-> "WebServerEip.ref",
     ttlMinutes |-> 1]

----------------------------------------------------------------------------
(* The run *)

Init ==
    /\ penv \in ParameterSets
    /\ pc = "resolve"
    /\ cfg = UnresolvedConfig
    /\ tree = NoNodes
    /\ outputs = NoOutputs
    /\ tags = NoTags
    /\ err = NoError
    /\ locals = NoLocals
    /\ prev = NoPrevious

(* 0) lines 78-103 *)
ResolveParameters ==
    /\ pc = "resolve"
    /\ LET r == ResolveConfig(penv)
       IN  IF r.threw
           THEN /\ err' = MissingVariableError(r.name)
                /\ pc' = "failed"
                /\ cfg' = cfg
           ELSE /\ cfg' = r.val
                /\ pc' = "network"
                /\ err' = err
    /\ UNCHANGED <<penv, tree, outputs, tags, locals, prev>>

(* Faulty variant of BuildNetwork: the VpcId output is declared next to   *)
(* the VPC instead of in the outputs section                             *)
BuildNetworkWithOutput ==
    /\ pc = "network"
    /\ tree' = tree @@ ("HybridCloudVPC" :> VpcProps(cfg))
                    @@ RoutePropagations("VpnPropPublic", "public")
                    @@ RoutePropagations("VpnPropPrivate", "private")
    /\ outputs' = outputs @@ ("VpcId" :> "HybridCloudVPC.vpcId")
    /\ pc' = "security"
    /\ UNCHANGED <<penv, cfg, tags, err, locals, prev>>

(* 1) RED, lines 108-130 *)
BuildNetwork ==
    /\ pc = "network"
    /\ tree' = tree @@ ("HybridCloudVPC" :> VpcProps(cfg))
                    @@ RoutePropagations("VpnPropPublic", "public")
                    @@ RoutePropagations("VpnPropPrivate", "private")
    /\ pc' = "security"
    /\ UNCHANGED <<penv, cfg, outputs, tags, err, locals, prev>>

(* 2) SEGURIDAD, lines 135-155 *)
BuildWebSecurityGroup ==
    /\ pc = "security"
    /\ tree' = tree @@ ("WebServerSG" :>
                   [kind             |-> "ec2.SecurityGroup",
                    vpc              |-> "HybridCloudVPC",
                    allowAllOutbound |-> FALSE,
                    ingress          |-> WebIngressRules(cfg),
                    egress           |-> WebEgressRules(cfg)])
    /\ pc' = "compute"
    /\ UNCHANGED <<penv, cfg, outputs, tags, err, locals, prev>>

(* 3) COMPUTO, lines 160-175 *)
BuildCompute ==
    /\ pc = "compute"
    /\ tree' = tree @@ ("WebServer" :>
                   [kind          |-> "ec2.Instance",
                    vpc           |-> "HybridCloudVPC",
                    instanceType  |-> cfg.INSTANCE_TYPE,
                    machineImage  |-> "latestAmazonLinux2",
                    securityGroup |-> "WebServerSG",
                    keyName       |-> cfg.EC2_KEY_PAIR_NAME,
                    subnetType    |-> "PUBLIC",
                    associatePublicIpAddress |-> FALSE,
                    requireImdsv2 |-> TRUE])
                    @@ ("WebServerEip" :> [kind |-> "ec2.CfnEIP"])
                    @@ ("WebServerEipAssociation" :>
                   [kind       |-> "ec2.CfnEIPAssociation",
                    eip        |-> "WebServerEip.ref",
                    instanceId |-> "WebServer.instanceId"])
    /\ pc' = "connectivity"
    /\ UNCHANGED <<penv, cfg, outputs, tags, err, locals, prev>>

(* 4) CONECTIVIDAD, lines 180-222 *)
BuildConnectivity ==
    /\ pc = "connectivity"
    /\ tree' = tree @@ ("CustomerGateway" :>
                   [kind      |-> "ec2.CfnCustomerGateway",
                    type      |-> "ipsec.1",
                    ipAddress |-> cfg.CGW_PUBLIC_IP,
                    bgpAsn    |-> cfg.CGW_BGP_ASN])
                    @@ ("SiteToSiteVpn" :>
                   [kind              |-> "ec2.CfnVPNConnection",
                    customerGatewayId |-> "CustomerGateway.ref",
                    type              |-> "ipsec.1",
                    vpnGatewayId      |-> "HybridCloudVPC.vpnGatewayId",
                    staticRoutesOnly  |-> TRUE,
                    vpnTunnelOptionsSpecifications |->
                        <<TunnelOptions(cfg.VPN_PSK), TunnelOptions(cfg.VPN_PSK)>>])
                    @@ ("VpnStaticRoute" :>
                   [kind                 |-> "ec2.CfnVPNConnectionRoute",
                    destinationCidrBlock |-> cfg.REMOTE_NETWORK_CIDR,
                    vpnConnectionId      |-> "SiteToSiteVpn.ref"])
    /\ pc' = "storage"
    /\ UNCHANGED <<penv, cfg, outputs, tags, err, locals, prev>>

(* 5) DATOS, lines 227-253 *)
BuildStorage ==
    /\ pc = "storage"
    /\ IF cfg.ENABLE_RDS
       THEN /\ tree' = tree @@ ("DbSG" :>
                           [kind    |-> "ec2.SecurityGroup",
                            vpc     |-> "HybridCloudVPC",
                            ingress |-> {Rule(securityGroupPeer("WebServerSG"), "tcp", 3306)}])
                            @@ ("MariaDB" :> DatabaseProps(cfg))
            /\ locals' = [dbEndpoint   |-> "MariaDB.dbInstanceEndpointAddress",
                          dbSecretName |-> SecretNameOf(DatabaseProps(cfg))]
       ELSE /\ tree' = tree
            /\ locals' = [dbEndpoint |-> "", dbSecretName |-> ""]
    /\ pc' = "outputs"
    /\ UNCHANGED <<penv, cfg, outputs, tags, err, prev>>

(* Faulty variant of StackOutputs: the database outputs are always emitted *)
StackOutputsAlwaysDb(c, l) ==
       "VpcId"                    :> "HybridCloudVPC.vpcId"
    @@ "PublicElasticIp"          :> "WebServerEip.ref"
    @@ "WebServerInstanceId"      :> "WebServer.instanceId"
    @@ "WebServerSecurityGroupId" :> "WebServerSG.securityGroupId"
    @@ "CustomerGatewayId"        :> "CustomerGateway.ref"
    @@ "VpnConnectionId"          :> "SiteToSiteVpn.ref"
    @@ "DBEndpointAddress"        :> l.dbEndpoint
    @@ "DBSecretName"             :>
           (IF l.dbSecretName # "" THEN l.dbSecretName ELSE "No Secret Name")

(* lines 258-268 *)
StackOutputs(c, l) ==
       "VpcId"                    :> "HybridCloudVPC.vpcId"
    @@ "PublicElasticIp"          :> "WebServerEip.ref"
    @@ "WebServerInstanceId"      :> "WebServer.instanceId"
    @@ "WebServerSecurityGroupId" :> "WebServerSG.securityGroupId"
    @@ "CustomerGatewayId"        :> "CustomerGateway.ref"
    @@ "VpnConnectionId"          :> "SiteToSiteVpn.ref"
    @@ (IF c.ENABLE_RDS
        THEN    "DBEndpointAddress" :> l.dbEndpoint
             @@ "DBSecretName"      :>
                    (IF l.dbSecretName # "" THEN l.dbSecretName ELSE "No Secret Name")
        ELSE NoOutputs)

(* 6) SALIDAS, lines 258-268 *)
BindOutputs ==
    /\ pc = "outputs"
    /\ outputs' = outputs @@ StackOutputs(cfg, locals)
    /\ pc' = "dns"
    /\ UNCHANGED <<penv, cfg, tree, tags, err, locals, prev>>

(* Faulty variant of DomainMissing: an empty domain passes the check *)
DomainUndefinedOnly(domain) == ~domain.def

(* !HOSTED_ZONE_DOMAIN *)
DomainMissing(domain) == ~domain.def \/ domain.str = <<>>

(* Faulty variant of Route53Section: the zone is looked up before the    *)
(* domain is checked                                                     *)
Route53SectionLookupFirst(c) ==
    LET zone == "HostedZone" :>
                    [kind |-> "route53.HostedZone.fromLookup",
                     domainName |-> nullish(c.HOSTED_ZONE_DOMAIN, <<>>)]
    IN
    IF ~c.ENABLE_ROUTE53 THEN [threw |-> FALSE, nodes |-> NoNodes]
    ELSE IF DomainMissing(c.HOSTED_ZONE_DOMAIN)
    THEN [threw |-> TRUE, nodes |-> zone]
    ELSE [threw |-> FALSE,
          nodes |-> zone
               @@ (IF c.CREATE_APEX_A_RECORD
                   THEN "ApexARecord" :> ARecord(c.HOSTED_ZONE_DOMAIN.str)
                   ELSE NoNodes)
               @@ (IF c.CREATE_WWW_A_RECORD
                   THEN "WwwARecord" :>
                            ARecord(<<"w", "w", "w", ".">> \o c.HOSTED_ZONE_DOMAIN.str)
                   ELSE NoNodes)]

(* lines 273-301: what the section throws, or the nodes it creates *)
Route53Section(c) ==
    IF ~c.ENABLE_ROUTE53 THEN [threw |-> FALSE, nodes |-> NoNodes]
    ELSE IF DomainMissing(c.HOSTED_ZONE_DOMAIN)
    THEN [threw |-> TRUE, nodes |-> NoNodes]
    ELSE [threw |-> FALSE,
          nodes |-> ("HostedZone" :>
                        [kind |-> "route53.HostedZone.fromLookup",
                         domainName |-> c.HOSTED_ZONE_DOMAIN.str])
               @@ (IF c.CREATE_APEX_A_RECORD
                   THEN "ApexARecord" :> ARecord(c.HOSTED_ZONE_DOMAIN.str)
                   ELSE NoNodes)
               @@ (IF c.CREATE_WWW_A_RECORD
                   THEN "WwwARecord" :>
                            ARecord(<<"w", "w", "w", ".">> \o c.HOSTED_ZONE_DOMAIN.str)
                   ELSE NoNodes)]

(* 7) DNS, lines 273-301 *)
BuildNaming ==
    /\ pc = "dns"
    /\ LET r == Route53Section(cfg)
       IN  /\ tree' = tree @@ r.nodes
           /\ IF r.threw
              THEN err' = Route53DomainError /\ pc' = "failed"
              ELSE err' = err /\ pc' = "tags"
    /\ UNCHANGED <<penv, cfg, outputs, tags, locals, prev>>

(* What this.node.tryGetContext('env') may return *)
ContextEnvValues == {undefined, S(<<"p", "r", "o", "d">>)}

(* 9) Tags, lines 306-308 *)
AddTags ==
    /\ pc = "tags"
    /\ \E context \in ContextEnvValues :
        tags' =    "Project"     :> <<"Hybrid-Cloud-Template">>
                @@ "Owner"       :> <<"OwnerAwsStack">>
                @@ "Environment" :> nullish(context, <<"d", "e", "v">>)
    /\ pc' = "done"
    /\ UNCHANGED <<penv, cfg, tree, outputs, err, locals, prev>>

(* The program is run again after one line of the .env has been edited;  *)
(* prev keeps what the run before left.                                   *)
NewRun ==
    /\ pc \in {"done", "failed"}
    /\ \E n \in Names : \E v \in ValuesOf[n] :
        /\ v # penv[n]
        /\ [penv EXCEPT ![n] = v] \in ParameterSets
        /\ penv' = [penv EXCEPT ![n] = v]
    /\ prev' = [status |-> pc, penv |-> penv, cfg |-> cfg, tree |-> tree,
                outputs |-> outputs, err |-> err]
    /\ pc' = "resolve"
    /\ cfg' = UnresolvedConfig
    /\ tree' = NoNodes
    /\ outputs' = NoOutputs
    /\ tags' = NoTags
    /\ err' = NoError
    /\ locals' = NoLocals

Next ==
    \/ ResolveParameters
    \/ BuildNetwork
    \/ BuildWebSecurityGroup
    \/ BuildCompute
    \/ BuildConnectivity
    \/ BuildStorage
    \/ BindOutputs
    \/ BuildNaming
    \/ AddTags
    \/ NewRun

Spec == Init /\ [][Next]_vars

----------------------------------------------------------------------------
(* Vocabulary of the properties *)

IsMissingParameter(x) ==
    /\ x.thrown
    /\ Len(x.message) = 2
    /\ x.message[1] = "Falta la variable de entorno requerida: "

IsInvalidConfiguration(x) ==
    x.thrown /\ x.message = <<"ENABLE_ROUTE53=true requiere HOSTED_ZONE_DOMAIN en .env">>

AbsentOrEmpty(v) == ~v.def \/ Len(v.str) = 0

MissingRequired(e) == {n \in RequiredNames : AbsentOrEmpty(e[n])}

Blank(v) == ~v.def \/ \A i \in 1..Len(v.str) : v.str[i] \in WhiteSpace

DiffersOnlyIn(e1, e2, D) == \A n \in Names \ D : e1[n] = e2[n]

Without(f, D) == [x \in (DOMAIN f) \ D |-> f[x]]

Finished == pc \in {"done", "failed"}

NetworkIds ==
    {"HybridCloudVPC", "VpnPropPublic0", "VpnPropPublic1", "VpnPropPrivate0",
     "VpnPropPrivate1"}
ComputeIds == {"WebServerSG", "WebServer", "WebServerEip", "WebServerEipAssociation"}
ConnectivityIds == {"CustomerGateway", "SiteToSiteVpn", "VpnStaticRoute"}
StorageIds == {"DbSG", "MariaDB"}
NamingIds == {"HostedZone", "ApexARecord", "WwwARecord"}

BaseOutputs ==
    {"VpcId", "PublicElasticIp", "WebServerInstanceId", "WebServerSecurityGroupId",
     "CustomerGatewayId", "VpnConnectionId"}
StorageOutputs == {"DBEndpointAddress", "DBSecretName"}

----------------------------------------------------------------------------
(* C1: once section 0 has run, the run has failed with the missing-       *)
(* variable error, naming a required variable that is absent or empty,    *)
(* exactly when some required variable is absent or empty; with all five  *)
(* present and non-empty that error is never raised.                      *)
C1_MissingParameter ==
    pc # "resolve" =>
        IF MissingRequired(penv) # {}
        THEN /\ pc = "failed"
             /\ IsMissingParameter(err)
             /\ err.message[2] \in MissingRequired(penv)
        ELSE ~IsMissingParameter(err)

(* A run that failed on a required variable that is set, but empty *)
C1_Witness ==
    /\ pc = "failed"
    /\ IsMissingParameter(err)
    /\ penv[err.message[2]].def
    /\ penv[err.message[2]].str = <<>>

(* C2: after the DNS section, a run with all required variables whose     *)
(* ENABLE_ROUTE53 resolved to true and whose HOSTED_ZONE_DOMAIN is absent *)
(* or empty has failed with the Route 53 configuration error; a run whose *)
(* ENABLE_ROUTE53 resolved to false has not failed, domain or no domain.  *)
C2_NamingRequiresDomain ==
    (cfg.resolved /\ pc \in {"tags", "done", "failed"}) =>
        /\ (cfg.ENABLE_ROUTE53 /\ AbsentOrEmpty(penv["HOSTED_ZONE_DOMAIN"]))
               => (pc = "failed" /\ IsInvalidConfiguration(err))
        /\ ~cfg.ENABLE_ROUTE53 => (pc # "failed" /\ ~err.thrown)

(* Route 53 enabled with HOSTED_ZONE_DOMAIN set to the empty string *)
C2_Witness ==
    /\ pc = "failed"
    /\ IsInvalidConfiguration(err)
    /\ penv["HOSTED_ZONE_DOMAIN"].def
    /\ penv["HOSTED_ZONE_DOMAIN"].str = <<>>

(* C3 as stated: whenever an error has been thrown, no construct and no   *)
(* output has been created.                                               *)
C3_ErrorBeforeAnyNode ==
    err.thrown => (DOMAIN tree = {} /\ DOMAIN outputs = {})

(* C3 amended: the missing-variable error is thrown with no construct and *)
(* no output created; the Route 53 configuration error is thrown after    *)
(* the network, compute, connectivity and (if enabled) storage constructs *)
(* and all outputs have been created, and before any Route 53 construct.  *)
C3_ErrorsAndTopology ==
    err.thrown =>
        /\ pc = "failed"
        /\ IsMissingParameter(err) \/ IsInvalidConfiguration(err)
        /\ IsMissingParameter(err) => (DOMAIN tree = {} /\ DOMAIN outputs = {})
        /\ IsInvalidConfiguration(err) =>
              /\ DOMAIN tree = NetworkIds \cup ComputeIds \cup ConnectivityIds
                                 \cup (IF cfg.ENABLE_RDS THEN StorageIds ELSE {})
              /\ DOMAIN outputs = BaseOutputs
                                 \cup (IF cfg.ENABLE_RDS THEN StorageOutputs ELSE {})

(* The Route 53 error thrown with the database and the outputs in place *)
C3_Witness ==
    /\ IsInvalidConfiguration(err)
    /\ "MariaDB" \in DOMAIN tree
    /\ "VpcId" \in DOMAIN outputs

(* C4: a finished successful run has the DbSG and MariaDB constructs and  *)
(* the DBEndpointAddress and DBSecretName outputs when ENABLE_RDS         *)
(* resolved to true, and none of the four when it resolved to false; two  *)
(* successful runs whose .env differ only in ENABLE_RDS agree on every    *)
(* other construct and output, and agree on everything when both resolve  *)
(* the flag to true.                                                      *)
C4_StorageGroup ==
    pc = "done" =>
        /\ IF cfg.ENABLE_RDS
           THEN StorageIds \subseteq DOMAIN tree /\ StorageOutputs \subseteq DOMAIN outputs
           ELSE StorageIds \cap DOMAIN tree = {} /\ StorageOutputs \cap DOMAIN outputs = {}
        /\ (prev.status = "done" /\ DiffersOnlyIn(prev.penv, penv, {"ENABLE_RDS"})) =>
              /\ Without(tree, StorageIds) = Without(prev.tree, StorageIds)
              /\ Without(outputs, StorageOutputs) = Without(prev.outputs, StorageOutputs)
              /\ (cfg.ENABLE_RDS /\ prev.cfg.ENABLE_RDS) =>
                     (tree = prev.tree /\ outputs = prev.outputs)

(* Storage was on in the run before and is off in this one *)
C4_Witness ==
    /\ pc = "done"
    /\ prev.status = "done"
    /\ DiffersOnlyIn(prev.penv, penv, {"ENABLE_RDS"})
    /\ prev.cfg.ENABLE_RDS
    /\ ~cfg.ENABLE_RDS
    /\ "MariaDB" \in DOMAIN prev.tree

(* C5 as stated: in a successful run with Route 53 enabled, the apex      *)
(* record and an output of its name exist exactly when                    *)
(* CREATE_APEX_A_RECORD resolved to true, likewise the www record and     *)
(* CREATE_WWW_A_RECORD, and a run differing only in those two flags has   *)
(* the same constructs and outputs outside the Route 53 group.            *)
C5_RecordFlagsControlOutputs ==
    (pc = "done" /\ cfg.ENABLE_ROUTE53) =>
        /\ ("ApexARecord" \in DOMAIN tree) <=> cfg.CREATE_APEX_A_RECORD
        /\ ("ApexARecord" \in DOMAIN outputs) <=> cfg.CREATE_APEX_A_RECORD
        /\ ("WwwARecord" \in DOMAIN tree) <=> cfg.CREATE_WWW_A_RECORD
        /\ ("WwwARecord" \in DOMAIN outputs) <=> cfg.CREATE_WWW_A_RECORD
        /\ (/\ prev.status = "done"
            /\ DiffersOnlyIn(prev.penv, penv,
                             {"CREATE_APEX_A_RECORD", "CREATE_WWW_A_RECORD"})) =>
              /\ Without(tree, NamingIds) = Without(prev.tree, NamingIds)
              /\ Without(outputs, NamingIds) = Without(prev.outputs, NamingIds)

FixedEgressRules ==
    {Rule(anyIpv4, "udp", 53), Rule(anyIpv4, "tcp", 80), Rule(anyIpv4, "tcp", 443),
     Rule(anyIpv4, "icmp", 0 - 1)}

(* C6: the web security group has an egress rule beyond the four fixed    *)
(* ones exactly when SAP_API_HOST_IP has a character that is not white    *)
(* space, and that rule is tcp to the host without its surrounding white  *)
(* space on the resolved SAP_API_PORT; two runs whose .env differ only in *)
(* SAP_API_HOST_IP and SAP_API_PORT, both with the host absent, empty or  *)
(* white space, end the same way with the same constructs and outputs.    *)
C6_SapEgressRule ==
    /\ "WebServerSG" \in DOMAIN tree =>
          LET host  == penv["SAP_API_HOST_IP"]
              extra == tree["WebServerSG"].egress \ FixedEgressRules
          IN  IF Blank(host)
              THEN extra = {}
              ELSE \E r \in extra :
                      /\ extra = {r}
                      /\ r.protocol = "tcp"
                      /\ r.port = cfg.SAP_API_PORT
                      /\ r.peer.kind = "ipv4"
                      /\ r.peer.ref # <<>>
                      /\ Head(r.peer.ref) \notin WhiteSpace
                      /\ r.peer.ref[Len(r.peer.ref)] \notin WhiteSpace
                      /\ \E i, j \in 1..Len(host.str) :
                            /\ r.peer.ref = SubSeq(host.str, i, j)
                            /\ \A k \in 1..Len(host.str) :
                                  (k < i \/ k > j) => host.str[k] \in WhiteSpace
    /\ (/\ Finished
        /\ prev.status # "none"
        /\ DiffersOnlyIn(prev.penv, penv, {"SAP_API_HOST_IP", "SAP_API_PORT"})
        /\ Blank(penv["SAP_API_HOST_IP"])
        /\ Blank(prev.penv["SAP_API_HOST_IP"])) =>
          /\ pc = prev.status
          /\ err = prev.err
          /\ tree = prev.tree
          /\ outputs = prev.outputs

(* The host was absent in the run before and is white space in this one *)
C6_Witness ==
    /\ pc = "done"
    /\ prev.status = "done"
    /\ DiffersOnlyIn(prev.penv, penv, {"SAP_API_HOST_IP", "SAP_API_PORT"})
    /\ ~prev.penv["SAP_API_HOST_IP"].def
    /\ penv["SAP_API_HOST_IP"].def
    /\ penv["SAP_API_HOST_IP"].str # <<>>
    /\ Blank(penv["SAP_API_HOST_IP"])

Unsigned(s) ==
    LET t == trim(s)
    IN  IF t # <<>> /\ Head(t) \in {"+", "-"} THEN Tail(t) ELSE t

IsInteger(s) ==
    /\ Unsigned(s) # <<>>
    /\ \A i \in 1..Len(Unsigned(s)) : Unsigned(s)[i] \in Range(DigitChars)

RECURSIVE Horner(_, _)
Horner(ds, acc) ==
    IF ds = <<>> THEN acc ELSE Horner(Tail(ds), acc * 10 + digitValue(Head(ds)))

DenotedInteger(s) ==
    IF Head(trim(s)) = "-" THEN 0 - Horner(Unsigned(s), 0) ELSE Horner(Unsigned(s), 0)

(* C8 as stated: in a successful run the VPC's availability-zone count    *)
(* and NAT gateway count are both at least 1, and the NAT gateway count   *)
(* is 1 when NAT_GATEWAYS is absent.                                      *)
C8_CountsFlooredAtOne ==
    pc = "done" =>
        /\ tree["HybridCloudVPC"].maxAzs >= 1
        /\ tree["HybridCloudVPC"].natGateways >= 1
        /\ ~penv["NAT_GATEWAYS"].def => tree["HybridCloudVPC"].natGateways = 1

(* C8 amended: in a successful run the VPC's availability-zone count is   *)
(* the constant 2, and its NAT gateway count is the integer NAT_GATEWAYS  *)
(* resolved to, unfloored: 1 when the variable is absent, and the integer *)
(* written when the value is an integer, zero and negatives included.     *)
C8_NetworkCounts ==
    pc = "done" =>
        /\ tree["HybridCloudVPC"].maxAzs = 2
        /\ tree["HybridCloudVPC"].natGateways = cfg.NAT_GATEWAYS
        /\ ~penv["NAT_GATEWAYS"].def => tree["HybridCloudVPC"].natGateways = 1
        /\ (penv["NAT_GATEWAYS"].def /\ IsInteger(penv["NAT_GATEWAYS"].str)) =>
              tree["HybridCloudVPC"].natGateways = DenotedInteger(penv["NAT_GATEWAYS"].str)

(* A successful run whose VPC asks for fewer than one NAT gateway *)
C8_Witness ==
    /\ pc = "done"
    /\ tree["HybridCloudVPC"].natGateways < 1

BoolNames ==
    {"ENABLE_RDS", "DB_RETAIN", "ENABLE_ROUTE53", "CREATE_APEX_A_RECORD",
     "CREATE_WWW_A_RECORD"}

DeclaredBoolDefault ==
       "ENABLE_RDS"           :> TRUE
    @@ "DB_RETAIN"            :> FALSE
    @@ "ENABLE_ROUTE53"       :> FALSE
    @@ "CREATE_APEX_A_RECORD" :> TRUE
    @@ "CREATE_WWW_A_RECORD"  :> TRUE

ResolvedBool(c) ==
       "ENABLE_RDS"           :> c.ENABLE_RDS
    @@ "DB_RETAIN"            :> c.DB_RETAIN
    @@ "ENABLE_ROUTE53"       :> c.ENABLE_ROUTE53
    @@ "CREATE_APEX_A_RECORD" :> c.CREATE_APEX_A_RECORD
    @@ "CREATE_WWW_A_RECORD"  :> c.CREATE_WWW_A_RECORD

(* v spells the lower-case token, letter case aside *)
SpellsIgnoringCase(v, token) ==
    /\ Len(v) = Len(token)
    /\ \A i \in 1..Len(v) : v[i] = token[i] \/ v[i] = toUpperCaseChar(token[i])

(* C9: once resolved, each of the five bool options is its declared       *)
(* default when the variable is absent and otherwise is true exactly when *)
(* the value spells 1, true, yes or y in any letter case; the error of a  *)
(* failed resolution never names a bool option.                           *)
C9_BoolOptions ==
    /\ cfg.resolved =>
          \A n \in BoolNames :
              ResolvedBool(cfg)[n] =
                  IF ~penv[n].def
                  THEN DeclaredBoolDefault[n]
                  ELSE \E token \in {<<"1">>, <<"t", "r", "u", "e">>,
                                     <<"y", "e", "s">>, <<"y">>} :
                          SpellsIgnoringCase(penv[n].str, token)
    /\ (pc # "resolve" /\ MissingRequired(penv) = {}) => cfg.resolved
    /\ IsMissingParameter(err) => err.message[2] \notin BoolNames

(* ENABLE_RDS, whose default is true, set to the empty string *)
C9_Witness ==
    /\ cfg.resolved
    /\ penv["ENABLE_RDS"].def
    /\ penv["ENABLE_RDS"].str = <<>>
    /\ ~cfg.ENABLE_RDS

IntNames == {"NAT_GATEWAYS", "SAP_API_PORT", "CGW_BGP_ASN"}

DeclaredIntDefault ==
    "NAT_GATEWAYS" :> 1 @@ "SAP_API_PORT" :> 50000 @@ "CGW_BGP_ASN" :> 65000

ResolvedInt(c) ==
       "NAT_GATEWAYS" :> c.NAT_GATEWAYS
    @@ "SAP_API_PORT" :> c.SAP_API_PORT
    @@ "CGW_BGP_ASN"  :> c.CGW_BGP_ASN

(* C10 as stated: once resolved, each of the three int options is its     *)
(* declared default when the variable is absent or its value is not, as   *)
(* a whole, an integer, and is the integer written otherwise.             *)
C10_IntOptions ==
    cfg.resolved =>
        \A n \in IntNames :
            ResolvedInt(cfg)[n] =
                IF penv[n].def /\ IsInteger(penv[n].str)
                THEN DenotedInteger(penv[n].str)
                ELSE DeclaredIntDefault[n]

(* The number of tokens a split on '.' yields: one more than the dots *)
TokenCount(raw) == Cardinality({i \in 1..Len(raw) : raw[i] = "."}) + 1

(* The characters before the first dot, and those after it *)
FirstDot(raw) == CHOOSE i \in 1..Len(raw) : raw[i] = "." /\ \A j \in 1..(i - 1) : raw[j] # "."
FamilyToken(raw) == SubSeq(raw, 1, FirstDot(raw) - 1)
SizeToken(raw) == SubSeq(raw, FirstDot(raw) + 1, Len(raw))

(* C11 as stated: once resolved, the instance type is <family>.<size>     *)
(* when EC2_INSTANCE_TYPE (t3.medium when absent) splits on '.' into      *)
(* exactly two tokens that the catalogs of classes and sizes both know,   *)
(* and is t3.medium in every other case; a run with all required          *)
(* variables always gets past resolution.                                 *)
C11_InstanceShape ==
    /\ cfg.resolved =>
          LET raw == nullish(penv["EC2_INSTANCE_TYPE"],
                             <<"t", "3", ".", "m", "e", "d", "i", "u", "m">>)
          IN  cfg.INSTANCE_TYPE =
                  IF /\ TokenCount(raw) = 2
                     /\ toUpperCase(FamilyToken(raw)) \in DOMAIN InstanceClass
                     /\ toUpperCase(SizeToken(raw)) \in DOMAIN InstanceSize
                  THEN InstanceClass[toUpperCase(FamilyToken(raw))] \o <<".">>
                           \o InstanceSize[toUpperCase(SizeToken(raw))]
                  ELSE <<"t", "3", ".", "m", "e", "d", "i", "u", "m">>
    /\ (pc # "resolve" /\ MissingRequired(penv) = {}) => cfg.resolved

(* The constructs and outputs of the groups the resolved flags enable *)
GroupsBeforeOutputs(c) ==
    NetworkIds \cup ComputeIds \cup ConnectivityIds
        \cup (IF c.ENABLE_RDS THEN StorageIds ELSE {})

NamingIdsOf(c) ==
    IF ~c.ENABLE_ROUTE53 THEN {}
    ELSE {"HostedZone"} \cup (IF c.CREATE_APEX_A_RECORD THEN {"ApexARecord"} ELSE {})
                        \cup (IF c.CREATE_WWW_A_RECORD THEN {"WwwARecord"} ELSE {})

OutputsOf(c) == BaseOutputs \cup (IF c.ENABLE_RDS THEN StorageOutputs ELSE {})

(* C12 as stated: whenever an output exists, every enabled group, the     *)
(* Route 53 group included, is completely built; and no error is thrown   *)
(* once an output exists, because no check runs after the first output.   *)
C12_OutputsAfterEveryGroup ==
    DOMAIN outputs # {} =>
        /\ DOMAIN tree = GroupsBeforeOutputs(cfg) \cup NamingIdsOf(cfg)
        /\ ~err.thrown

(* C12 amended: parameters are resolved before anything is built; the     *)
(* groups are built in the order network, compute, connectivity, storage, *)
(* each complete before the next begins; the outputs are bound only when  *)
(* those groups are complete; the Route 53 group, with its domain check,  *)
(* is built after all outputs are bound, and is the only thing checked or *)
(* built after them.                                                      *)
C12_StageOrder ==
    /\ (DOMAIN tree # {} \/ DOMAIN outputs # {}) => cfg.resolved
    /\ DOMAIN tree # {} => NetworkIds \subseteq DOMAIN tree
    /\ DOMAIN tree \cap (ConnectivityIds \cup StorageIds \cup NamingIds) # {}
          => ComputeIds \subseteq DOMAIN tree
    /\ DOMAIN tree \cap (StorageIds \cup NamingIds) # {}
          => ConnectivityIds \subseteq DOMAIN tree
    /\ DOMAIN outputs # {} =>
          /\ DOMAIN outputs = OutputsOf(cfg)
          /\ (DOMAIN tree) \ NamingIds = GroupsBeforeOutputs(cfg)
    /\ DOMAIN tree \cap NamingIds # {} =>
          /\ DOMAIN outputs = OutputsOf(cfg)
          /\ DOMAIN tree = GroupsBeforeOutputs(cfg) \cup NamingIdsOf(cfg)
    /\ IsInvalidConfiguration(err) => DOMAIN outputs = OutputsOf(cfg)
    /\ IsMissingParameter(err) => ~cfg.resolved

(* The outputs are bound and the Route 53 group is still to be built *)
C12_Witness ==
    /\ pc = "dns"
    /\ cfg.ENABLE_ROUTE53
    /\ ~DomainMissing(cfg.HOSTED_ZONE_DOMAIN)
    /\ DOMAIN outputs = OutputsOf(cfg)
    /\ DOMAIN tree \cap NamingIds = {}

(* C13: whenever the MariaDB instance exists, its removal policy, its     *)
(* deleteAutomatedBackups switch and its backup retention are (RETAIN,    *)
(* false, 7 days) when DB_RETAIN resolved to true and (DESTROY, true,     *)
(* 0 days) when it resolved to false, and the instance exists only when   *)
(* ENABLE_RDS resolved to true.                                           *)
C13_RetentionConsistent ==
    "MariaDB" \in DOMAIN tree =>
        /\ cfg.ENABLE_RDS
        /\ <<tree["MariaDB"].removalPolicy,
             tree["MariaDB"].deleteAutomatedBackups,
             tree["MariaDB"].backupRetentionDays>>
               = IF cfg.DB_RETAIN
                 THEN <<"RETAIN", FALSE, 7>>
                 ELSE <<"DESTROY", TRUE, 0>>

(* A database built with DB_RETAIN set to a truthy value *)
C13_Witness ==
    /\ "MariaDB" \in DOMAIN tree
    /\ penv["DB_RETAIN"].def
    /\ cfg.DB_RETAIN
    /\ tree["MariaDB"].removalPolicy = "RETAIN"

====
